---- MODULE Spec2Model ----
(***************************************************************************)
(* Model of the calendar request handler of unibocalendar (src/main.go):   *)
(* getCoursesCal, successCalendar, createCal and the package-level cache   *)
(* calcache.  Two requests run the handler concurrently; the clock and the *)
(* upstream timetable move on their own.  The cache's janitor is left out: *)
(* it deletes only items that Get already reports as not found.            *)
(***************************************************************************)
EXTENDS Integers, Sequences, FiniteSets, TLC

(* ------------------------------ bounds -------------------------------- *)

\* last instant of the clock, in minutes
MaxTime == 20
\* number of successive contents of the upstream timetable
MaxVersion == 2

(* --------------------------- program constants ------------------------ *)

\* cache.New(time.Minute*10, ...): default expiration, in minutes
TTL == 10

\* http.StatusOK, http.StatusBadRequest, http.StatusNotFound,
\* http.StatusInternalServerError
StatusOK == 200
StatusBadRequest == 400
StatusNotFound == 404
StatusInternalServerError == 500

(* ------------------------------ inputs -------------------------------- *)

\* Raw texts are sequences of characters, as c.Param hands them over.
IdTexts == { <<"1">>, <<"9">>, <<"x">> }
AnnoTexts == { <<"1">>, <<"2">>, <<"0">>, <<"y">> }
\* values of the "curriculum" query parameter; "" is the absent parameter
CurriculumTexts == { "", "A" }

\* Other raw texts: a year with a leading zero, which Atoi reads as 1, a
\* year beyond the course's duration, a year below zero, texts that hold
\* the separator of the cache key, and twenty nines, decimal
\* digits whose value does not fit an int.
TooBig == [i \in 1..20 |-> "9"]
WideIdTexts == { <<"1">>, <<"9">>, <<"1", "-", "1">>, TooBig }
WideAnnoTexts ==
  { <<"1">>, <<"2">>, <<"0", "1">>, <<"-", "1">>, <<"1", "-", "1">>, TooBig }
\* with them, requests that carry no curriculum parameter
PlainCurriculumTexts == { "" }

\* the clock advances in steps of this many minutes
TickSteps == { TTL }

\* the handler invocations that can be in flight at once
Reqs == { "r1", "r2" }
Versions == 1..MaxVersion

(* ----------------------- strconv.Atoi, fmt.Sprintf -------------------- *)

DigitChars == { "0", "1", "2", "3", "4", "5", "6", "7", "8", "9" }

DigitVal(c) ==
  CASE c = "0" -> 0 [] c = "1" -> 1 [] c = "2" -> 2 [] c = "3" -> 3
    [] c = "4" -> 4 [] c = "5" -> 5 [] c = "6" -> 6 [] c = "7" -> 7
    [] c = "8" -> 8 [] c = "9" -> 9

RECURSIVE DigitsValue(_, _)
DigitsValue(s, acc) ==
  IF s = <<>> THEN acc ELSE DigitsValue(Tail(s), acc * 10 + DigitVal(Head(s)))

\* the decimal digits that a text begins with
RECURSIVE LeadingDigits(_)
LeadingDigits(s) ==
  IF s = <<>> \/ Head(s) \notin DigitChars THEN <<>>
  ELSE <<Head(s)>> \o LeadingDigits(Tail(s))

\* the digits without their leading zeros
RECURSIVE Significant(_)
Significant(s) ==
  IF s # <<>> /\ Head(s) = "0" THEN Significant(Tail(s)) ELSE s

\* the digits of 1<<63 - 1, the largest int (strconv.IntSize = 64); the
\* smallest int has the same digits but for a last "8"
MaxIntDigits ==
  << "9", "2", "2", "3", "3", "7", "2", "0", "3", "6",
     "8", "5", "4", "7", "7", "5", "8", "0", "7" >>
MinIntDigits == [MaxIntDigits EXCEPT ![Len(MaxIntDigits)] = "8"]
\* the digits of 1<<64 - 1, the largest value ParseUint reads
MaxUintDigits ==
  << "1", "8", "4", "4", "6", "7", "4", "4", "0", "7",
     "3", "7", "0", "9", "5", "5", "1", "6", "1", "5" >>

\* the number written a is greater than the number written b, neither with
\* leading zeros
RECURSIVE Exceeds(_, _)
Exceeds(a, b) ==
  IF Len(a) # Len(b) THEN Len(a) > Len(b)
  ELSE IF a = <<>> THEN FALSE
  ELSE IF Head(a) # Head(b) THEN DigitVal(Head(a)) > DigitVal(Head(b))
  ELSE Exceeds(Tail(a), Tail(b))

\* An int is held as its decimal writing, as fmt's %d prints it: a "-" for
\* a value below zero, then the digits without leading zeros, "0" for zero.
Canonical(negative, sig) ==
  IF sig = <<>> THEN <<"0">> ELSE IF negative THEN <<"-">> \o sig ELSE sig

Negative(v) == Head(v) = "-"
Magnitude(v) == IF Negative(v) THEN Tail(v) ELSE v

\* a < b, for two ints
LessThan(a, b) ==
  IF Negative(a) # Negative(b) THEN Negative(a)
  ELSE IF Negative(a) THEN Exceeds(Magnitude(a), Magnitude(b))
  ELSE Exceeds(b, a)

\* the int of a natural number of the model
RECURSIVE Decimal(_)
Decimal(n) ==
  LET Digits == << "0", "1", "2", "3", "4", "5", "6", "7", "8", "9" >>
      last == Digits[(n % 10) + 1]
  IN  IF n < 10 THEN <<last>> ELSE Decimal(n \div 10) \o <<last>>

\* the number of an int of few digits, such as a year that passed the
\* handler's range check
IntOf(v) ==
  IF Negative(v) THEN 0 - DigitsValue(Magnitude(v), 0) ELSE DigitsValue(v, 0)

\* strconv.Atoi: an optional sign, then one or more decimal digits, give
\* their value. The digits are read from the left: a value that passes
\* 1<<64 - 1 ends the reading with ErrRange, a character that is no digit
\* ends it with a syntax error and the value 0, and digits read to the end
\* whose value does not fit an int are ErrRange. ErrRange comes with the
\* nearest int.
Atoi(s) ==
  LET signed == s # <<>> /\ Head(s) \in { "+", "-" }
      negative == signed /\ Head(s) = "-"
      digits == IF signed THEN Tail(s) ELSE s
      read == LeadingDigits(digits)
      sig == Significant(read)
      nearest == IF negative THEN <<"-">> \o MinIntDigits ELSE MaxIntDigits
  IN  IF Exceeds(sig, MaxUintDigits) THEN [ok |-> FALSE, val |-> nearest]
      ELSE IF digits = <<>> \/ read # digits THEN [ok |-> FALSE, val |-> <<"0">>]
      ELSE IF Exceeds(sig, IF negative THEN MinIntDigits ELSE MaxIntDigits)
      THEN [ok |-> FALSE, val |-> nearest]
      ELSE [ok |-> TRUE, val |-> Canonical(negative, sig)]

\* cacheKey := fmt.Sprintf("%s-%s", id, anno)
\* a key made of the parsed integers instead of the texts
CacheKeyParsed(id, anno) ==
  Atoi(id).val \o <<"-">> \o Atoi(anno).val

\* a key made of the id text alone
CacheKeyIdOnly(id, anno) == id \o <<"-">>

CacheKey(id, anno) == id \o <<"-">> \o anno

(* --------------------- CourseDirectory (package unibo) ---------------- *)

\* The open-data snapshot handed to setupRouter: never changed afterwards.
Courses ==
  { [Codice |-> 1, Descrizione |-> "Informatica", DurataAnni |-> 1] }

NoCourse == [Codice |-> 0, Descrizione |-> "", DurataAnni |-> 0]

\* courses.FindById(idInt): the course and whether it was found
FindById(idInt) ==
  LET found == { c \in Courses : Decimal(c.Codice) = idInt }
  IN  IF found # {}
      THEN [found |-> TRUE, course |-> CHOOSE c \in found : TRUE]
      ELSE [found |-> FALSE, course |-> NoCourse]

(* --------------------- TimetableSource (package unibo) ---------------- *)

Lecture(title, start, end, aula, cur) ==
  [title |-> title, start |-> start, end |-> end, aula |-> aula, curriculum |-> cur]

\* What the university publishes for a course and year at a given version of
\* the timetable: not sorted by time, with a repeated lecture, and one more
\* lecture common to all curricula with every new version.
Published(course, anno, ver) ==
  << Lecture("Fisica", 11, 13, "Aula 2", "B"),
     Lecture("Analisi", 9, 11, "Aula 1", "A"),
     Lecture("Analisi", 9, 11, "Aula 1", "A") >>
  \o [i \in 1..(ver - 1) |-> Lecture("Seminario", 14 + i, 15 + i, "Aula 3", "")]

\* course.GetTimetable(annoInt, curriculum) when the source answers: the
\* lectures of the slice, in the order published; an empty curriculum value
\* selects every lecture.
GetTimetable(course, anno, curriculum, ver) ==
  LET Selected(l) == curriculum = "" \/ l.curriculum = "" \/ l.curriculum = curriculum
  IN  SelectSeq(Published(course, anno, ver), Selected)

(* ------------------------- CalendarSynthesizer ------------------------ *)

VEvent(l) ==
  [summary |-> l.title, dtstart |-> l.start, dtend |-> l.end, location |-> l.aula]

\* timetable.ToICS(): one calendar event per lecture, in the same order
ToICS(timetable) ==
  [name |-> "", description |-> "",
   events |-> [i \in 1..Len(timetable) |-> VEvent(timetable[i])]]

\* createCal with the year left out of the name
createCalNoYear(timetable, course, year) ==
  [ToICS(timetable) EXCEPT
     !.name = course.Descrizione \o " - year",
     !.description = "Orario delle lezioni del " \o ToString(year)
                       \o " anno del corso di " \o course.Descrizione]

\* createCal(timetable, course, year)
createCal(timetable, course, year) ==
  [ToICS(timetable) EXCEPT
     !.name = course.Descrizione \o " - " \o ToString(year) \o " year",
     !.description = "Orario delle lezioni del " \o ToString(year)
                       \o " anno del corso di " \o course.Descrizione]

\* cal.SerializeTo(buf): the bytes of the document. Nothing is assumed of
\* their format: they are held as one block that stands for the document,
\* so that different documents have different bytes.
Serialize(cal) == << <<"text/calendar", cal>> >>

(* ----------------------- go-cache, as calcache uses it ---------------- *)

\* Get with the expiration compared the other way round: an item expires as
\* soon as the clock reaches its expiration
GetExpiresEarly(c, k, t) ==
  IF k \in DOMAIN c /\ ~(t >= c[k].exp)
  THEN [found |-> TRUE, buf |-> c[k].buf]
  ELSE [found |-> FALSE, buf |-> <<>>]

\* Get without the expiration check
GetNeverExpires(c, k, t) ==
  IF k \in DOMAIN c
  THEN [found |-> TRUE, buf |-> c[k].buf]
  ELSE [found |-> FALSE, buf |-> <<>>]

\* calcache.Get(cacheKey): an item is found unless it is absent or the
\* clock is past its expiration
Get(c, k, t) ==
  IF k \in DOMAIN c /\ ~(t > c[k].exp)
  THEN [found |-> TRUE, buf |-> c[k].buf]
  ELSE [found |-> FALSE, buf |-> <<>>]

\* Set that keeps an item that has not expired, as go-cache's Add does
SetIfAbsent(c, k, buf, t) ==
  IF k \in DOMAIN c /\ ~(t > c[k].exp)
  THEN c
  ELSE (k :> [buf |-> buf, exp |-> t + TTL]) @@ c

\* Set with an expiration of twice the default
SetLongLived(c, k, buf, t) == (k :> [buf |-> buf, exp |-> t + 2 * TTL]) @@ c

\* calcache.Set(cacheKey, buf, cache.DefaultExpiration)
Set(c, k, buf, t) == (k :> [buf |-> buf, exp |-> t + TTL]) @@ c

(* ------------------------------ responses ----------------------------- *)

NoResp == [status |-> 0, ctype |-> "", body |-> <<>>]

\* c.String(status, text) with no Content-Type set before
String(status, text) ==
  [status |-> status, ctype |-> "text/plain; charset=utf-8", body |-> << <<"", text>> >>]

\* successCalendar(c, cal)
successCalendar(buf) ==
  [status |-> StatusOK, ctype |-> "text/calendar; charset=utf-8", body |-> buf]

(* --------------------- getCoursesCal: validation ---------------------- *)

\* Validate with the year's range judged before the course is looked up
ValidateYearFirst(id, anno) ==
  LET a == Atoi(anno)
      i == Atoi(id)
      f == FindById(i.val)
      Reject(status, text, looked) ==
        [ok |-> FALSE, resp |-> String(status, text), course |-> NoCourse, annoInt |-> 0,
         looked |-> looked]
  IN  IF ~a.ok THEN Reject(StatusBadRequest, "Invalid year", FALSE)
      ELSE IF ~i.ok THEN Reject(StatusBadRequest, "Invalid id", FALSE)
      ELSE IF ~LessThan(Decimal(0), a.val) \/ LessThan(Decimal(f.course.DurataAnni), a.val)
           THEN Reject(StatusBadRequest, "Invalid year", TRUE)
      ELSE IF ~f.found THEN Reject(StatusNotFound, "Course not found", TRUE)
      ELSE [ok |-> TRUE, resp |-> NoResp, course |-> f.course, annoInt |-> IntOf(a.val),
            looked |-> TRUE]

\* Validate without the upper bound of the year
ValidateNoUpperBound(id, anno) ==
  LET a == Atoi(anno)
      i == Atoi(id)
      f == FindById(i.val)
      Reject(status, text, looked) ==
        [ok |-> FALSE, resp |-> String(status, text), course |-> NoCourse, annoInt |-> 0,
         looked |-> looked]
  IN  IF ~a.ok THEN Reject(StatusBadRequest, "Invalid year", FALSE)
      ELSE IF ~i.ok THEN Reject(StatusBadRequest, "Invalid id", FALSE)
      ELSE IF ~f.found THEN Reject(StatusNotFound, "Course not found", TRUE)
      ELSE IF ~LessThan(Decimal(0), a.val) THEN Reject(StatusBadRequest, "Invalid year", TRUE)
      ELSE [ok |-> TRUE, resp |-> NoResp, course |-> f.course, annoInt |-> IntOf(a.val),
            looked |-> TRUE]

\* Validate with the lower bound of the year off by one
ValidateYearZero(id, anno) ==
  LET a == Atoi(anno)
      i == Atoi(id)
      f == FindById(i.val)
      Reject(status, text, looked) ==
        [ok |-> FALSE, resp |-> String(status, text), course |-> NoCourse, annoInt |-> 0,
         looked |-> looked]
  IN  IF ~a.ok THEN Reject(StatusBadRequest, "Invalid year", FALSE)
      ELSE IF ~i.ok THEN Reject(StatusBadRequest, "Invalid id", FALSE)
      ELSE IF ~f.found THEN Reject(StatusNotFound, "Course not found", TRUE)
      ELSE IF LessThan(a.val, Decimal(0)) \/ LessThan(Decimal(f.course.DurataAnni), a.val)
           THEN Reject(StatusBadRequest, "Invalid year", TRUE)
      ELSE [ok |-> TRUE, resp |-> NoResp, course |-> f.course, annoInt |-> IntOf(a.val),
            looked |-> TRUE]

\* Validate with the course looked up before the id is known to be a number
ValidateLookupFirst(id, anno) ==
  LET a == Atoi(anno)
      i == Atoi(id)
      f == FindById(i.val)
      Reject(status, text, looked) ==
        [ok |-> FALSE, resp |-> String(status, text), course |-> NoCourse, annoInt |-> 0,
         looked |-> looked]
  IN  IF ~a.ok THEN Reject(StatusBadRequest, "Invalid year", FALSE)
      ELSE IF ~f.found THEN Reject(StatusNotFound, "Course not found", TRUE)
      ELSE IF ~i.ok THEN Reject(StatusBadRequest, "Invalid id", TRUE)
      ELSE IF ~LessThan(Decimal(0), a.val) \/ LessThan(Decimal(f.course.DurataAnni), a.val)
           THEN Reject(StatusBadRequest, "Invalid year", TRUE)
      ELSE [ok |-> TRUE, resp |-> NoResp, course |-> f.course, annoInt |-> IntOf(a.val),
            looked |-> TRUE]

\* Lines 147-171: the rejection of the request, or ok with the course and
\* the year as integers.
Validate(id, anno) ==
  LET a == Atoi(anno)
      i == Atoi(id)
      f == FindById(i.val)
      Reject(status, text, looked) ==
        [ok |-> FALSE, resp |-> String(status, text), course |-> NoCourse, annoInt |-> 0,
         looked |-> looked]
  IN  IF ~a.ok THEN Reject(StatusBadRequest, "Invalid year", FALSE)
      ELSE IF ~i.ok THEN Reject(StatusBadRequest, "Invalid id", FALSE)
      ELSE IF ~f.found THEN Reject(StatusNotFound, "Course not found", TRUE)
      ELSE IF ~LessThan(Decimal(0), a.val) \/ LessThan(Decimal(f.course.DurataAnni), a.val)
           THEN Reject(StatusBadRequest, "Invalid year", TRUE)
      ELSE [ok |-> TRUE, resp |-> NoResp, course |-> f.course, annoInt |-> IntOf(a.val),
            looked |-> TRUE]

(* ------------------------------- state -------------------------------- *)

VARIABLES
  now,       \* the clock, in minutes
  version,   \* which contents the upstream timetable has
  cache,     \* calcache: key -> [buf, exp]
  origin,    \* history: for each stored key, what its bytes were made from, and when
  pc,        \* where each request is in the handler
  req,       \* the request's id, anno and curriculum texts
  tt,        \* the timetable the request fetched
  resp,      \* the response written
  trace      \* history: what the request did

vars == <<now, version, cache, origin, pc, req, tt, resp, trace>>

NoReq == [id |-> <<>>, anno |-> <<>>, curriculum |-> ""]

NoTrace ==
  [got |-> FALSE,    \* calcache.Get was called
   hit |-> FALSE,    \* ... and found the key
   looked |-> FALSE, \* courses.FindById was called
   stale |-> FALSE,  \* the key was last written more than TTL ago
   from |-> "",      \* the curriculum the bytes answered were made for
   texts |-> <<>>,   \* the id and anno texts of the request that stored them
   age |-> 0,        \* minutes between their Set and the response
   called |-> FALSE, \* course.GetTimetable was called
   ver |-> 0,        \* ... and returned the timetable of this version
   put |-> FALSE,    \* calcache.Set was called
   exp |-> 0,        \* expiration of the item read or written
   fresh |-> FALSE]  \* no other request has written the key since the response

Init ==
  /\ now = 0
  /\ version = 1
  /\ cache = <<>>
  /\ origin = <<>>
  /\ pc = [r \in Reqs |-> "idle"]
  /\ req = [r \in Reqs |-> NoReq]
  /\ tt = [r \in Reqs |-> <<>>]
  /\ resp = [r \in Reqs |-> NoResp]
  /\ trace = [r \in Reqs |-> NoTrace]

KeyOf(r) == CacheKey(req[r].id, req[r].anno)

\* the requests answered 200 under key k, other than r, lose their freshness
\* when r writes k
Overwritten(r, k) ==
  [q \in Reqs |->
     IF q # r /\ pc[q] = "done" /\ KeyOf(q) = k
     THEN [trace[q] EXCEPT !.fresh = FALSE, !.exp = 0] ELSE trace[q]]

(* ------------------------------ handler ------------------------------- *)

\* Lines 138-177: a request arrives; the cache is read and, on a miss, the
\* request is validated.
Arrive(r, id, anno, curriculum) ==
  LET k == CacheKey(id, anno)
      g == Get(cache, k, now)
      v == Validate(id, anno)
      t == [NoTrace EXCEPT !.got = TRUE, !.hit = g.found,
                           !.looked = (~g.found /\ v.looked),
                           !.stale = (k \in DOMAIN origin /\ now - origin[k].at > TTL),
                           !.from = IF g.found THEN origin[k].curriculum ELSE "",
                           !.texts = IF g.found THEN origin[k].texts ELSE <<>>,
                           !.age = IF g.found THEN now - origin[k].at ELSE 0,
                           !.exp = IF g.found THEN cache[k].exp ELSE 0,
                           !.fresh = g.found]
  IN  /\ pc[r] \in {"idle", "done"}
      /\ req' = [req EXCEPT ![r] = [id |-> id, anno |-> anno, curriculum |-> curriculum]]
      /\ tt' = [tt EXCEPT ![r] = <<>>]
      /\ trace' = [trace EXCEPT ![r] = t]
      /\ IF g.found
         THEN /\ resp' = [resp EXCEPT ![r] = successCalendar(g.buf)]
              /\ pc' = [pc EXCEPT ![r] = "done"]
         ELSE IF ~v.ok
         THEN /\ resp' = [resp EXCEPT ![r] = v.resp]
              /\ pc' = [pc EXCEPT ![r] = "done"]
         ELSE /\ resp' = [resp EXCEPT ![r] = NoResp]
              /\ pc' = [pc EXCEPT ![r] = "fetch"]
      /\ UNCHANGED <<now, version, cache, origin>>

\* Fetch without the return after the 500 response
FetchNoReturn(r, answered) ==
  LET v == Validate(req[r].id, req[r].anno)
  IN  /\ pc[r] = "fetch"
      /\ tt' = [tt EXCEPT ![r] =
                  IF answered
                  THEN GetTimetable(v.course, v.annoInt, req[r].curriculum, version)
                  ELSE <<>>]
      /\ resp' = [resp EXCEPT ![r] =
                    IF answered THEN NoResp
                    ELSE String(StatusInternalServerError, "Unable to retrieve timetable")]
      /\ trace' = [trace EXCEPT ![r].called = TRUE, ![r].ver = version]
      /\ pc' = [pc EXCEPT ![r] = "synth"]
      /\ UNCHANGED <<now, version, cache, origin, req>>

\* Lines 179-185: course.GetTimetable(annoInt, curriculum), which answers
\* or fails
Fetch(r, answered) ==
  LET v == Validate(req[r].id, req[r].anno)
  IN  /\ pc[r] = "fetch"
      /\ IF answered
         THEN /\ tt' = [tt EXCEPT ![r] =
                          GetTimetable(v.course, v.annoInt, req[r].curriculum, version)]
              /\ trace' = [trace EXCEPT ![r].called = TRUE, ![r].ver = version]
              /\ pc' = [pc EXCEPT ![r] = "synth"]
              /\ UNCHANGED resp
         ELSE /\ resp' = [resp EXCEPT ![r] =
                            String(StatusInternalServerError, "Unable to retrieve timetable")]
              /\ trace' = [trace EXCEPT ![r].called = TRUE]
              /\ pc' = [pc EXCEPT ![r] = "done"]
              /\ UNCHANGED tt
      /\ UNCHANGED <<now, version, cache, origin, req>>

\* Synthesize with the buffer stored before the serialization's error is
\* looked at
SynthesizeStoresFirst(r, serialized) ==
  LET v == Validate(req[r].id, req[r].anno)
      k == KeyOf(r)
      buf == Serialize(createCal(tt[r], v.course, v.annoInt))
  IN  /\ pc[r] = "synth"
      /\ pc' = [pc EXCEPT ![r] = "done"]
      /\ cache' = Set(cache, k, IF serialized THEN buf ELSE <<>>, now)
      /\ origin' = (k :> [curriculum |-> req[r].curriculum, ver |-> trace[r].ver,
                          at |-> now, texts |-> <<req[r].id, req[r].anno>>]) @@ origin
      /\ trace' = [Overwritten(r, k) EXCEPT ![r].put = TRUE,
                                            ![r].from = req[r].curriculum,
                                            ![r].texts = <<req[r].id, req[r].anno>>,
                                            ![r].exp = now + TTL,
                                            ![r].fresh = TRUE]
      /\ IF serialized
         THEN resp' = [resp EXCEPT ![r] = successCalendar(buf)]
         ELSE resp' = [resp EXCEPT ![r] =
                         String(StatusInternalServerError, "Unable to serialize calendar")]
      /\ UNCHANGED <<now, version, req, tt>>

\* Lines 187-197: createCal, SerializeTo, calcache.Set, successCalendar
Synthesize(r, serialized) ==
  LET v == Validate(req[r].id, req[r].anno)
      k == KeyOf(r)
      buf == Serialize(createCal(tt[r], v.course, v.annoInt))
  IN  /\ pc[r] = "synth"
      /\ pc' = [pc EXCEPT ![r] = "done"]
      /\ IF serialized
         THEN /\ cache' = Set(cache, k, buf, now)
              /\ origin' = (k :> [curriculum |-> req[r].curriculum, ver |-> trace[r].ver,
                                     at |-> now, texts |-> <<req[r].id, req[r].anno>>])
                             @@ origin
              /\ resp' = [resp EXCEPT ![r] = successCalendar(buf)]
              /\ trace' = [Overwritten(r, k) EXCEPT ![r].put = TRUE,
                                                    ![r].from = req[r].curriculum,
                                                    ![r].texts = <<req[r].id, req[r].anno>>,
                                                    ![r].exp = now + TTL,
                                                    ![r].fresh = TRUE]
         ELSE /\ resp' = [resp EXCEPT ![r] =
                            String(StatusInternalServerError, "Unable to serialize calendar")]
              /\ UNCHANGED <<cache, origin, trace>>
      /\ UNCHANGED <<now, version, req, tt>>

(* ---------------------------- environment ----------------------------- *)

\* time passes
Tick(d) ==
  /\ now + d <= MaxTime
  /\ now' = now + d
  /\ UNCHANGED <<version, cache, origin, pc, req, tt, resp, trace>>

\* the university publishes a new timetable
Publish ==
  /\ version < MaxVersion
  /\ version' = version + 1
  /\ UNCHANGED <<now, cache, origin, pc, req, tt, resp, trace>>

Next ==
  \/ \E r \in Reqs, id \in IdTexts, anno \in AnnoTexts, c \in CurriculumTexts :
       Arrive(r, id, anno, c)
  \/ \E r \in Reqs, answered \in BOOLEAN : Fetch(r, answered)
  \/ \E r \in Reqs, serialized \in BOOLEAN : Synthesize(r, serialized)
  \/ \E d \in TickSteps : Tick(d)
  \/ Publish

Spec == Init /\ [][Next]_vars

\* The handler over the wider texts, without curriculum parameter and over
\* an unchanging timetable.
NextTexts ==
  \/ \E r \in Reqs, id \in WideIdTexts, anno \in WideAnnoTexts,
          c \in PlainCurriculumTexts :
       Arrive(r, id, anno, c)
  \/ \E r \in Reqs, answered \in BOOLEAN : Fetch(r, answered)
  \/ \E r \in Reqs, serialized \in BOOLEAN : Synthesize(r, serialized)
  \/ \E d \in TickSteps : Tick(d)

SpecTexts == Init /\ [][NextTexts]_vars

(* ======================= properties of the handler ==================== *)

\* getCoursesCal's validation as section 4.1 of the specification states it
Acceptable(id, anno) ==
  /\ Atoi(id).ok
  /\ Atoi(anno).ok
  /\ \E c \in Courses :
       /\ Decimal(c.Codice) = Atoi(id).val
       /\ ~LessThan(Atoi(anno).val, Decimal(1))
       /\ ~LessThan(Decimal(c.DurataAnni), Atoi(anno).val)

\* the serialized document of a course, year and curriculum at a version of
\* the timetable
Doc(course, anno, curriculum, ver) ==
  Serialize(createCal(GetTimetable(course, anno, curriculum, ver), course, anno))

CourseOf(r) == FindById(Atoi(req[r].id).val).course
AnnoOf(r) == IntOf(Atoi(req[r].anno).val)
Answered(r, status) == pc[r] = "done" /\ resp[r].status = status

\* C1: a calendar answered from the cache was made for the curriculum of
\* the request it answers: requests that differ only in the curriculum
\* never share a cache entry.
C1_Distinctness ==
  \A r \in Reqs :
    Answered(r, StatusOK) /\ trace[r].hit => trace[r].from = req[r].curriculum

\* C2: every 200 response carries the document synthesized for the
\* request's own course, year and curriculum, at some version of the
\* timetable, and every cache entry is the document of its key made for
\* one curriculum.
C2_ExactKey ==
  /\ \A r \in Reqs :
       Answered(r, StatusOK) =>
         \E v \in Versions :
           resp[r].body = Doc(CourseOf(r), AnnoOf(r), req[r].curriculum, v)
  /\ \A id \in IdTexts, anno \in AnnoTexts :
       CacheKey(id, anno) \in DOMAIN cache =>
         \E c \in CurriculumTexts, v \in Versions :
           cache[CacheKey(id, anno)].buf
             = Doc(FindById(Atoi(id).val).course, IntOf(Atoi(anno).val), c, v)

\* C3: when a request was answered 200, no other request has written its
\* key since, and an identical request arrives no later than the expiration
\* of the item that answered the first, the second is answered at once with
\* the same response, from the cache, and never calls TimetableSource.
C3_Idempotence ==
  [][\A r1, r2 \in Reqs :
       (/\ Answered(r1, StatusOK)
        /\ trace[r1].fresh
        /\ now <= trace[r1].exp
        /\ Arrive(r2, req[r1].id, req[r1].anno, req[r1].curriculum))
       => (/\ pc'[r2] = "done"
           /\ resp'[r2] = resp[r1]
           /\ trace'[r2].hit
           /\ ~trace'[r2].called
           /\ cache' = cache)]_vars

\* two identical requests, the first synthesized, the second answered from
\* the cache with the same bytes
C3_Witness ==
  \E r1, r2 \in Reqs :
    /\ r1 # r2
    /\ Answered(r1, StatusOK) /\ trace[r1].put /\ trace[r1].fresh
    /\ Answered(r2, StatusOK) /\ trace[r2].hit
    /\ req[r1] = req[r2]
    /\ resp[r1] = resp[r2]

\* C4: a failed fetch or a failed serialization answers 500 and leaves the
\* cache as it was; an identical request that then finds no live item under
\* the key goes on to call TimetableSource, and that call is made.
C4_NoNegativeCaching ==
  /\ [][\A r \in Reqs :
          (Fetch(r, FALSE) \/ Synthesize(r, FALSE))
          => (/\ pc'[r] = "done"
              /\ resp'[r].status = StatusInternalServerError
              /\ cache' = cache)]_vars
  /\ [][\A r1, r2 \in Reqs :
          (/\ Answered(r1, StatusInternalServerError)
           /\ ~(KeyOf(r1) \in DOMAIN cache /\ now <= cache[KeyOf(r1)].exp)
           /\ Arrive(r2, req[r1].id, req[r1].anno, req[r1].curriculum))
          => (pc'[r2] = "fetch" /\ cache' = cache)]_vars
  /\ [][\A r \in Reqs :
          (pc[r] = "fetch" /\ pc'[r] # "fetch") => trace'[r].called]_vars

\* a request failed and left nothing in the cache, and the identical request
\* after it has called TimetableSource again
C4_Witness ==
  \E r1, r2 \in Reqs :
    /\ r1 # r2
    /\ Answered(r1, StatusInternalServerError)
    /\ req[r2] = req[r1]
    /\ pc[r2] = "synth" /\ trace[r2].called
    /\ cache = <<>>

\* C5: a request that arrives more than TTL after its key was last written
\* is not answered from the cache: it calls TimetableSource, which hands it
\* the timetable as it is at the time of the call, and a 200 response
\* carries the document made from that timetable.
C5_Expiry ==
  /\ [](\A r \in Reqs :
          trace[r].stale =>
            /\ ~trace[r].hit
            /\ pc[r] = "fetch" \/ trace[r].called
            /\ Answered(r, StatusOK) =>
                 /\ trace[r].put
                 /\ resp[r].body
                      = Doc(CourseOf(r), AnnoOf(r), req[r].curriculum, trace[r].ver))
  /\ [][\A r \in Reqs :
          (pc[r] = "fetch" /\ pc'[r] = "synth") =>
            (/\ trace'[r].ver = version
             /\ tt'[r] = GetTimetable(CourseOf(r), AnnoOf(r), req[r].curriculum, version))]_vars

\* a request that arrived after the expiry has fetched a timetable whose
\* document differs from the expired one still stored for the same
\* curriculum
C5_Witness ==
  \E r \in Reqs :
    /\ trace[r].stale
    /\ pc[r] = "synth"
    /\ KeyOf(r) \in DOMAIN cache
    /\ origin[KeyOf(r)].curriculum = req[r].curriculum
    /\ cache[KeyOf(r)].buf
         # Doc(CourseOf(r), AnnoOf(r), req[r].curriculum, trace[r].ver)

\* the text is one that strconv.Atoi reads as an int
Numeric(text) == Atoi(text).ok
Known(id) == Numeric(id) /\ \E c \in Courses : Decimal(c.Codice) = Atoi(id).val
NotFoundBody == << <<"", "Course not found">> >>

\* C6: a request with a year that reads as an int, for a course id that
\* reads as an int and that the directory does not know, is answered 404
\* "Course not found", whatever the year, without a
\* call of TimetableSource, and nothing is stored under its key.
C6_UnknownCourse ==
  /\ \A r \in Reqs :
       (pc[r] # "idle" /\ Numeric(req[r].id) /\ ~Known(req[r].id) /\ Numeric(req[r].anno))
       => /\ Answered(r, StatusNotFound)
          /\ resp[r].body = NotFoundBody
          /\ ~trace[r].called
          /\ ~trace[r].put
          /\ tt[r] = <<>>
  /\ \A id \in WideIdTexts, anno \in WideAnnoTexts :
       (Numeric(id) /\ ~Known(id)) => CacheKey(id, anno) \notin DOMAIN cache

\* two requests for an unknown course answered 404, one with a year that a
\* course could have and one with a year out of every range
C6_Witness ==
  \E r1, r2 \in Reqs :
    /\ Numeric(req[r1].id) /\ ~Known(req[r1].id)
    /\ Numeric(req[r2].id) /\ ~Known(req[r2].id)
    /\ Numeric(req[r1].anno) /\ AnnoOf(r1) = 1
    /\ Numeric(req[r2].anno) /\ AnnoOf(r2) # 1
    /\ Answered(r1, StatusNotFound) /\ Answered(r2, StatusNotFound)

\* C7: for a known course and an integer year, a year within 1..DurataAnni
\* is never answered 400 or 404, and a year outside it is answered 400
\* without a call of TimetableSource and without a write of the cache.
C7_YearRange ==
  /\ \A r \in Reqs :
       (pc[r] # "idle" /\ Known(req[r].id) /\ Numeric(req[r].anno))
       => IF 1 <= AnnoOf(r) /\ AnnoOf(r) <= CourseOf(r).DurataAnni
          THEN resp[r].status \notin {StatusBadRequest, StatusNotFound}
          ELSE /\ Answered(r, StatusBadRequest)
               /\ ~trace[r].called
               /\ ~trace[r].put
               /\ tt[r] = <<>>
  /\ \A id \in WideIdTexts, anno \in WideAnnoTexts :
       (Known(id) /\ Numeric(anno) /\ ~Acceptable(id, anno))
       => CacheKey(id, anno) \notin DOMAIN cache

\* a year beyond the course's duration answered 400 next to a year within it
\* answered 200
C7_Witness ==
  \E r1, r2 \in Reqs :
    /\ Known(req[r1].id) /\ Numeric(req[r1].anno)
    /\ AnnoOf(r1) > CourseOf(r1).DurataAnni
    /\ Answered(r1, StatusBadRequest)
    /\ Acceptable(req[r2].id, req[r2].anno)
    /\ Answered(r2, StatusOK)

\* C8, as claimed: a request that fails validation is answered without any
\* cache Get, any cache Put or any call of TimetableSource.
C8_ValidationFirst ==
  \A r \in Reqs :
    (pc[r] # "idle" /\ ~Acceptable(req[r].id, req[r].anno))
    => /\ resp[r].status \in {StatusBadRequest, StatusNotFound}
       /\ ~trace[r].got
       /\ ~trace[r].put
       /\ ~trace[r].called

\* C8, amended: a request that fails validation is answered 400 or 404 after
\* one cache Get, which misses, and without any cache Put or any call of
\* TimetableSource or of the synthesizer.
C8_ValidationAfterGet ==
  \A r \in Reqs :
    (pc[r] # "idle" /\ ~Acceptable(req[r].id, req[r].anno))
    => /\ pc[r] = "done"
       /\ resp[r].status \in {StatusBadRequest, StatusNotFound}
       /\ trace[r].got
       /\ ~trace[r].hit
       /\ ~trace[r].put
       /\ ~trace[r].called
       /\ tt[r] = <<>>

\* with a document in the cache, a non-numeric id answered 400 and an
\* unknown course answered 404
C8_Witness ==
  \E r1, r2 \in Reqs :
    /\ ~Numeric(req[r1].id) /\ Answered(r1, StatusBadRequest) /\ trace[r1].got
    /\ Numeric(req[r2].id) /\ ~Known(req[r2].id)
    /\ Answered(r2, StatusNotFound) /\ trace[r2].got
    /\ cache # <<>>

\* C9: a request that missed the cache calls TimetableSource itself and
\* answers 200 with the document made from what it fetched; its Set stores
\* exactly those bytes whatever was stored before; and the cache never holds
\* anything but a whole document.
C9_ConcurrentMisses ==
  /\ [](\A r \in Reqs :
          (Answered(r, StatusOK) /\ ~trace[r].hit)
          => /\ trace[r].called
             /\ trace[r].put
             /\ resp[r].body
                  = Doc(CourseOf(r), AnnoOf(r), req[r].curriculum, trace[r].ver))
  /\ [](\A id \in IdTexts, anno \in AnnoTexts :
          CacheKey(id, anno) \in DOMAIN cache =>
            \E c \in CurriculumTexts, v \in Versions :
              cache[CacheKey(id, anno)].buf
                = Doc(FindById(Atoi(id).val).course, IntOf(Atoi(anno).val), c, v))
  /\ [][\A r \in Reqs :
          (pc[r] = "synth" /\ resp'[r].status = StatusOK)
          => /\ KeyOf(r) \in DOMAIN cache'
             /\ cache'[KeyOf(r)] = [buf |-> resp'[r].body, exp |-> now + TTL]]_vars
  /\ [][\A r \in Reqs :
          (pc[r] \in {"fetch", "synth"} /\ pc'[r] = "done" /\ resp'[r].status = StatusOK)
          => trace'[r].put]_vars

\* one request has just stored its document while another, which missed the
\* cache as well, holds a different timetable for the same key
C9_Witness ==
  \E r1, r2 \in Reqs :
    /\ r1 # r2
    /\ KeyOf(r1) = KeyOf(r2)
    /\ Answered(r1, StatusOK) /\ trace[r1].put /\ trace[r1].fresh
    /\ trace[r1].exp = now + TTL
    /\ pc[r2] = "synth"
    /\ tt[r2] # tt[r1]

\* the document that the bytes of a calendar response stand for
Document(buf) == buf[1][2]

C11_Precedence ==
  \A r \in Reqs :
    (pc[r] # "idle" /\ ~trace[r].hit) =>
      /\ (~Numeric(req[r].anno) \/ ~Numeric(req[r].id))
         => (Answered(r, StatusBadRequest) /\ ~trace[r].looked)
      /\ (Numeric(req[r].anno) /\ Numeric(req[r].id) /\ ~Known(req[r].id))
         => (Answered(r, StatusNotFound) /\ trace[r].looked)
      /\ (Answered(r, StatusBadRequest) /\ Numeric(req[r].anno) /\ Numeric(req[r].id))
         => /\ Known(req[r].id)
            /\ trace[r].looked
            /\ AnnoOf(r) <= 0 \/ AnnoOf(r) > CourseOf(r).DurataAnni

\* an unknown course with a year out of range answered 404, next to an id
\* of digits that no int holds answered 400 without a lookup
C11_Witness ==
  \E r1, r2 \in Reqs :
    /\ Numeric(req[r1].id) /\ ~Known(req[r1].id)
    /\ Numeric(req[r1].anno) /\ AnnoOf(r1) <= 0
    /\ Answered(r1, StatusNotFound) /\ trace[r1].looked
    /\ ~Numeric(req[r2].id) /\ Numeric(req[r2].anno)
    /\ \A i \in 1..Len(req[r2].id) : req[r2].id[i] \in DigitChars
    /\ Answered(r2, StatusBadRequest) /\ ~trace[r2].looked
    /\ resp[r2].body = << <<"", "Invalid id">> >>

\* C12: the bytes of a 200 response were stored at most TTL before the
\* response; an item's expiration is the time of its Set plus TTL; and the
\* cache changes only by the Set of a request that answers 200, which
\* stores its bytes to expire at now + TTL, so that no arrival, hit or
\* miss, changes an item or its expiration.
C12_BoundedStaleness ==
  /\ [](\A r \in Reqs :
          Answered(r, StatusOK) => (0 <= trace[r].age /\ trace[r].age <= TTL))
  /\ [](\A k \in DOMAIN cache :
          k \in DOMAIN origin /\ cache[k].exp = origin[k].at + TTL)
  /\ [][cache' # cache =>
          \E r \in Reqs :
            /\ pc[r] = "synth"
            /\ resp'[r].status = StatusOK
            /\ cache' = (KeyOf(r) :> [buf |-> resp'[r].body, exp |-> now + TTL]) @@ cache]_vars

\* a hit at the last instant of the item's life: bytes exactly TTL old
C12_Witness ==
  \E r \in Reqs :
    Answered(r, StatusOK) /\ trace[r].hit /\ trace[r].age = TTL

SameParsed(id1, anno1, id2, anno2) ==
  /\ Numeric(id1) /\ Numeric(id2) /\ Atoi(id1).val = Atoi(id2).val
  /\ Numeric(anno1) /\ Numeric(anno2) /\ Atoi(anno1).val = Atoi(anno2).val

\* the item r stored is still the one in the cache, and has not expired
Live(r) == Answered(r, StatusOK) /\ trace[r].fresh /\ now <= trace[r].exp

\* C13 as stated: while the item a request stored is live, a request whose
\* id and year texts parse to the same integers, with the same curriculum,
\* is a hit and does not call GetTimetable.
C13_ParsedKey ==
  [][\A r1, r2 \in Reqs, id \in WideIdTexts, anno \in WideAnnoTexts :
       ( /\ Live(r1)
         /\ SameParsed(id, anno, req[r1].id, req[r1].anno)
         /\ Arrive(r2, id, anno, req[r1].curriculum) )
       => (trace'[r2].hit /\ pc'[r2] = "done" /\ ~trace'[r2].called)]_vars

\* C13: the cache key is made of the raw id and year texts. A hit is only
\* ever served from an item that a request with the same id and year texts
\* stored; and while the item a request stored is live, a request with the
\* same id and year texts and the same curriculum is a hit that returns the
\* same bytes and does not call GetTimetable.
C13_TextKey ==
  /\ [](\A r \in Reqs :
          (Answered(r, StatusOK) /\ trace[r].hit)
          => trace[r].texts = <<req[r].id, req[r].anno>>)
  /\ [][\A r1, r2 \in Reqs :
          (Live(r1) /\ Arrive(r2, req[r1].id, req[r1].anno, req[r1].curriculum))
          => /\ trace'[r2].hit /\ pc'[r2] = "done" /\ ~trace'[r2].called
             /\ resp'[r2] = resp[r1]]_vars

\* years "1" and "01" of the same course and curriculum: the second request
\* arrived while the item of the first was live, missed and called
\* GetTimetable, and the cache holds an item for each
C13_Witness ==
  \E r1, r2 \in Reqs :
    /\ Live(r1) /\ Live(r2)
    /\ SameParsed(req[r1].id, req[r1].anno, req[r2].id, req[r2].anno)
    /\ req[r1].anno # req[r2].anno
    /\ req[r1].curriculum = req[r2].curriculum
    /\ ~trace[r1].hit /\ ~trace[r2].hit /\ trace[r2].called
    /\ KeyOf(r1) # KeyOf(r2)
    /\ {KeyOf(r1), KeyOf(r2)} \subseteq DOMAIN cache

Statuses == {StatusOK, StatusBadRequest, StatusNotFound, StatusInternalServerError}

\* what the handler has done for the request in slot r
Progress(r) ==
  <<pc[r], req[r], resp[r], tt[r], trace[r].got, trace[r].hit, trace[r].called,
    trace[r].put>>

\* C14: a request has a response exactly when it has ended, and the
\* response is one of 200, 400, 404, 500; a request moves from the lookup
\* and validation to the fetch, from the fetch to the synthesis, and ends
\* from any of them, never backwards; once it has ended nothing more is
\* done for it: its slot changes only by the first step of a new request,
\* which reads the cache and neither fetches nor stores; the Set happens once, in
\* the step from the synthesis that answers 200, after a successful fetch
\* and with no response yet, and stores the bytes of that 200 response.
C14_Sequential ==
  /\ [](\A r \in Reqs :
          /\ (pc[r] = "done") <=> (resp[r] # NoResp)
          /\ pc[r] = "done" => resp[r].status \in Statuses
          /\ trace[r].put => (Answered(r, StatusOK) /\ trace[r].called /\ ~trace[r].hit)
          /\ pc[r] = "synth" => (trace[r].called /\ ~trace[r].put))
  /\ [][/\ \A r \in Reqs :
            /\ pc'[r] = "fetch" => pc[r] \in {"idle", "done", "fetch"}
            /\ pc'[r] = "synth" => pc[r] \in {"fetch", "synth"}
            /\ pc'[r] = "idle" => pc[r] = "idle"
            /\ (pc[r] = "done" /\ Progress(r)' # Progress(r))
               => /\ pc'[r] \in {"done", "fetch"}
                  /\ trace'[r].got /\ ~trace'[r].called /\ ~trace'[r].put
                  /\ tt'[r] = <<>> /\ cache' = cache
            /\ (trace'[r].put /\ ~trace[r].put)
               => /\ pc[r] = "synth" /\ resp[r] = NoResp /\ trace[r].called
                  /\ pc'[r] = "done" /\ resp'[r].status = StatusOK
                  /\ KeyOf(r) \in DOMAIN cache'
                  /\ cache'[KeyOf(r)].buf = resp'[r].body
        /\ cache' # cache => \E r \in Reqs : trace'[r].put /\ ~trace[r].put]_vars

\* one request stored and returned its calendar, another ended with 500 at
\* the fetch and stored nothing
C14_Witness ==
  \E r1, r2 \in Reqs :
    /\ Answered(r1, StatusOK) /\ trace[r1].put /\ trace[r1].fresh
    /\ cache[KeyOf(r1)].buf = resp[r1].body
    /\ Answered(r2, StatusInternalServerError) /\ trace[r2].called /\ ~trace[r2].put
    /\ tt[r2] = <<>>

HasSeparator(text) == \E i \in 1..Len(text) : text[i] = "-"

\* C15: no id and year texts that fail validation make the key of a stored
\* item, and a request whose texts fail validation is never a hit: it ends
\* with 400 or 404.
C15_NoInvalidHit ==
  /\ \A id \in WideIdTexts, anno \in WideAnnoTexts :
       ~Acceptable(id, anno) => CacheKey(id, anno) \notin DOMAIN cache
  /\ \A r \in Reqs :
       (pc[r] # "idle" /\ ~Acceptable(req[r].id, req[r].anno))
       => /\ ~trace[r].hit
          /\ pc[r] = "done"
          /\ resp[r].status \in {StatusBadRequest, StatusNotFound}

\* while the calendar stored by a valid request is live, a request with a
\* numeric id and a year text that holds '-' has been refused
C15_Witness ==
  \E r1, r2 \in Reqs :
    /\ Live(r1) /\ trace[r1].put
    /\ req[r2].id = req[r1].id
    /\ HasSeparator(req[r2].anno)
    /\ trace[r2].got /\ ~trace[r2].hit
    /\ Answered(r2, StatusBadRequest)

====
